---- MODULE Spec2Model ----
(***************************************************************************)
(* Dependency graph of flashcards, the graph queries of graph_resolver.py  *)
(* and the study-queue builder of queue_builder.py.                        *)
(*                                                                         *)
(* Card ids are interchangeable names: the code only compares them for     *)
(* equality and keeps them in dicts, lists and sets.  A Python dict or     *)
(* list is a sequence (insertion order); a Python set of strings is        *)
(* iterated in an order the program does not control, so every iteration   *)
(* of a set is a nondeterministic choice of one of its orderings.          *)
(***************************************************************************)
EXTENDS Integers, Sequences, FiniteSets, TLC

VARIABLES graph, vault, call, result

vars == <<graph, vault, call, result>>

\* The universe of card ids.
Ids == {"a", "b", "c", "d", "e"}

\* Order in which ids become nodes or cards (ids are interchangeable, so
\* one order stands for every insertion order up to renaming).
NodeOrder == <<"a", "b", "c", "d">>

\* The ids used with a graph built through the DependencyGraph methods.
ApiIds == {"a", "b", "c"}

\* Bound on the number of requires edges added through add_requires.
MaxEdges == 3

\* Bound on the length of the card_ids argument of topological_sort.
MaxListLen == 3

\* Bounds on the number of requires entries of the whole vault, and on the
\* depth argument of build_dependency_queue.
MaxVaultEdges == 2

MaxDepth == 2

\* The same bounds for the vaults and calls of SpecDeep.
MaxDeepEdges == 5

MaxDeepDepth == 3

\* Bound on the length of one card's requires list in SpecDeep.
DeepListLen == 2

\* Bound on the small max_nodes arguments of build_dependency_queue.
MaxCap == 1

\* Bound on the number of related edges added through add_related.
MaxRelatedEdges == 1

\* Bound of SpecBuild: the number of card records of the vault.
MaxRecords == 2

\* Bounds of SpecLocal: the number of requires entries of the whole vault,
\* the depth and the small max_nodes arguments of get_local_graph.
MaxLocalEdges == 4

MaxLocalDepth == 2

MaxCollectDepth == 3

MaxLocalCap == 1

\* Default max_nodes of get_local_graph.
DefaultLocalMaxNodes == 150

\* Defaults of build_dependency_queue.
DefaultDepth == 2

DefaultMaxNodes == 50

None == "None"

(***************************************************************************)
(* Sequence helpers.                                                       *)
(***************************************************************************)
Range(s) == {s[i] : i \in 1..Len(s)}

InSeq(x, s) == \E i \in 1..Len(s) : s[i] = x

IndexOf(x, s) == CHOOSE i \in 1..Len(s) : s[i] = x /\ \A j \in 1..(i - 1) : s[j] # x

NoDup(s) == \A i, j \in 1..Len(s) : i # j => s[i] # s[j]

\* Every ordering of a finite set: the orders in which a Python set may be
\* iterated.
Orderings(S) == {s \in [1..Cardinality(S) -> S] : \A i, j \in 1..Cardinality(S) : i # j => s[i] # s[j]}

\* [x for x in s if x in S]
FilterIn(s, S) == SelectSeq(s, LAMBDA x : x \in S)

RECURSIVE SumOver(_, _)
SumOver(f, S) ==
    IF S = {} THEN 0
    ELSE LET x == CHOOSE y \in S : TRUE IN f[x] + SumOver(f, S \ {x})

\* Every list over S of length at most n.
ListsUpTo(S, n) == UNION {[1..k -> S] : k \in 0..n}

(***************************************************************************)
(* DependencyGraph (arete.domain.graph).                                   *)
(***************************************************************************)
EmptyGraph == [nodes |-> <<>>,
               requires |-> [i \in Ids |-> <<>>],
               dependents |-> [i \in Ids |-> <<>>],
               related |-> [i \in Ids |-> <<>>]]

\* `cid in graph.nodes`
NodeSet(g) == Range(g.nodes)

add_node(g, id) ==
    IF InSeq(id, g.nodes) THEN g ELSE [g EXCEPT !.nodes = Append(@, id)]

\* Mutant: the edge is stored again when it is already there.
add_requires_repeated(g, from, to) ==
    [g EXCEPT !.requires[from] = Append(@, to),
              !.dependents[to] = Append(@, from)]

add_requires(g, from, to) ==
    IF InSeq(to, g.requires[from]) THEN g
    ELSE [g EXCEPT !.requires[from] = Append(@, to),
                   !.dependents[to] = Append(@, from)]

add_related(g, from, to) ==
    IF InSeq(to, g.related[from]) THEN g
    ELSE [g EXCEPT !.related[from] = Append(@, to)]

get_prerequisites(g, id) == g.requires[id]

get_dependents(g, id) == g.dependents[id]

get_related(g, id) == g.related[id]

RequiresCount(g) == SumOver([i \in Ids |-> Len(g.requires[i])], Ids)

RelatedCount(g) == SumOver([i \in Ids |-> Len(g.related[i])], Ids)

\* Mutant: only the requires edges are looked at.
unresolved_refs_requires_only(g) ==
    [s \in Ids |-> SelectSeq(g.requires[s], LAMBDA t : t \notin NodeSet(g))]

\* unresolved_refs: for each source id, the ids it requires or is related
\* to that have no node; an id without such an entry maps to the empty list.
unresolved_refs(g) ==
    [s \in Ids |-> SelectSeq(g.requires[s] \o SelectSeq(g.related[s], LAMBDA t : ~InSeq(t, g.requires[s])),
                             LAMBDA t : t \notin NodeSet(g))]

(***************************************************************************)
(* graphlib.TopologicalSorter as graph_resolver.py uses it: add() per     *)
(* card, then static_order(), which raises CycleError from prepare().      *)
(***************************************************************************)
EmptySorter == [order |-> <<>>,
                npred |-> [i \in Ids |-> 0],
                succ |-> [i \in Ids |-> <<>>]]

\* _get_nodeinfo for each of the ids of s, in order: an unknown id is
\* appended to the insertion-ordered node table.
RECURSIVE Register(_, _)
Register(order, s) ==
    IF s = <<>> THEN order
    ELSE Register(IF InSeq(Head(s), order) THEN order ELSE Append(order, Head(s)), Tail(s))

RECURSIVE AddSuccessor(_, _, _)
AddSuccessor(succ, preds, node) ==
    IF preds = <<>> THEN succ
    ELSE AddSuccessor([succ EXCEPT ![Head(preds)] = Append(@, node)], Tail(preds), node)

\* sorter.add(node, *preds)
SorterAdd(st, node, preds) ==
    [order |-> Register(st.order, <<node>> \o preds),
     npred |-> [st.npred EXCEPT ![node] = @ + Len(preds)],
     succ |-> AddSuccessor(st.succ, preds, node)]

\* The loop `for card_id in <iter>: sorter.add(card_id, *valid_prereqs)`
\* where valid_prereqs keeps the prerequisites that are in `keep`.
RECURSIVE FillSorter(_, _, _, _)
FillSorter(st, g, iter, keep) ==
    IF iter = <<>> THEN st
    ELSE FillSorter(SorterAdd(st, Head(iter), FilterIn(get_prerequisites(g, Head(iter)), keep)),
                    g, Tail(iter), keep)

\* TopologicalSorter._find_cycle: depth-first walk along successors, from
\* each node of the table in turn; the first node met again while it is on
\* the stack closes the cycle stack[i:] + [node].
RECURSIVE CycleVisit(_, _, _, _)
RECURSIVE CycleVisitAll(_, _, _, _)
CycleVisit(st, node, stack, seen) ==
    IF node \in seen
    THEN IF InSeq(node, stack)
         THEN [cycle |-> SubSeq(stack, IndexOf(node, stack), Len(stack)) \o <<node>>, seen |-> seen]
         ELSE [cycle |-> <<>>, seen |-> seen]
    ELSE CycleVisitAll(st, st.succ[node], Append(stack, node), seen \cup {node})

CycleVisitAll(st, todo, stack, seen) ==
    IF todo = <<>> THEN [cycle |-> <<>>, seen |-> seen]
    ELSE LET r == CycleVisit(st, Head(todo), stack, seen)
         IN  IF r.cycle # <<>> THEN r ELSE CycleVisitAll(st, Tail(todo), stack, r.seen)

find_cycle(st) == CycleVisitAll(st, st.order, <<>>, {}).cycle

\* done(node) for one node: each successor loses a predecessor and becomes
\* ready when it has none left.
RECURSIVE DoneOne(_, _)
DoneOne(acc, succs) ==
    IF succs = <<>> THEN acc
    ELSE LET s == Head(succs)
             n == acc.npred[s] - 1
         IN  DoneOne([npred |-> [acc.npred EXCEPT ![s] = n],
                      ready |-> IF n = 0 THEN Append(acc.ready, s) ELSE acc.ready],
                     Tail(succs))

RECURSIVE DoneAll(_, _, _)
DoneAll(st, acc, group) ==
    IF group = <<>> THEN acc
    ELSE DoneAll(st, DoneOne(acc, st.succ[Head(group)]), Tail(group))

\* while is_active(): group = get_ready(); yield from group; done(*group)
RECURSIVE ReadyLoop(_, _, _, _)
ReadyLoop(st, npred, ready, out) ==
    IF ready = <<>> THEN out
    ELSE LET acc == DoneAll(st, [npred |-> npred, ready |-> <<>>], ready)
         IN  ReadyLoop(st, acc.npred, acc.ready, out \o ready)

\* list(sorter.static_order()): the order, or the CycleError with its cycle.
static_order(st) ==
    LET cyc == find_cycle(st)
    IN  IF cyc # <<>>
        THEN [raised |-> TRUE, cycle |-> cyc, order |-> <<>>]
        ELSE [raised |-> FALSE, cycle |-> <<>>,
              order |-> ReadyLoop(st, st.npred,
                                  SelectSeq(st.order, LAMBDA n : st.npred[n] = 0), <<>>)]

(***************************************************************************)
(* graph_resolver.topological_sort                                         *)
(***************************************************************************)
\* Mutant: the requested ids are not filtered by graph.nodes.
valid_ids_unfiltered(g, card_ids) == Range(card_ids)

\* valid_ids = set(cid for cid in card_ids if cid in graph.nodes)
valid_ids(g, card_ids) == Range(card_ids) \cap NodeSet(g)

\* Mutant: the ids are returned as iterated, without ordering them.
topological_sort_unsorted(g, iter) == [order |-> iter, warned |-> FALSE]

\* Mutant: the sorter is given every prerequisite that has a node, in the
\* subset or not.
topological_sort_all_prereqs(g, iter) ==
    LET r == static_order(FillSorter(EmptySorter, g, iter, NodeSet(g)))
    IN  IF r.raised
        THEN [order |-> iter, warned |-> TRUE]
        ELSE [order |-> r.order, warned |-> FALSE]

\* The result when the set valid_ids is iterated in the order `iter`.
topological_sort_in(g, iter) ==
    LET r == static_order(FillSorter(EmptySorter, g, iter, Range(iter)))
    IN  IF r.raised
        THEN [order |-> iter, warned |-> TRUE]
        ELSE [order |-> r.order, warned |-> FALSE]

\* Every result topological_sort(graph, card_ids) can return.
topological_sort(g, card_ids) ==
    {topological_sort_in(g, iter) : iter \in Orderings(valid_ids(g, card_ids))}

(***************************************************************************)
(* graph_resolver.detect_cycles                                            *)
(***************************************************************************)
\* Mutant: a card that requires itself is not passed to the sorter as its
\* own predecessor.
detect_cycles_noself(g) ==
    LET h == [g EXCEPT !.requires = [i \in Ids |-> SelectSeq(g.requires[i], LAMBDA p : p # i)]]
        r == static_order(FillSorter(EmptySorter, h, h.nodes, NodeSet(h)))
    IN  IF r.raised THEN <<r.cycle>> ELSE <<>>

\* Mutant: the CycleError is taken to carry no cycle list (the branch of
\* line 178).
detect_cycles_nolist(g) ==
    LET r == static_order(FillSorter(EmptySorter, g, g.nodes, NodeSet(g)))
    IN  IF r.raised THEN << <<>> >> ELSE <<>>

detect_cycles(g) ==
    LET r == static_order(FillSorter(EmptySorter, g, g.nodes, NodeSet(g)))
    IN  IF r.raised THEN <<r.cycle>> ELSE <<>>

(***************************************************************************)
(* graph_resolver.detect_cycles_for_card.  `visited` and `cycles` are      *)
(* shared by every call of dfs and threaded through its result; rec_stack  *)
(* always holds exactly the ids of `path`.                                 *)
(***************************************************************************)
RECURSIVE dfs(_, _, _, _, _)
RECURSIVE DfsLoop(_, _, _, _, _)
dfs(g, card_id, cid, path, st) ==
    DfsLoop(g, card_id, get_prerequisites(g, cid), Append(path, cid),
            [visited |-> st.visited \cup {cid}, cycles |-> st.cycles])

\* Mutant: a cycle closed on the path is recorded whether or not it holds
\* card_id.
RECURSIVE DfsLoopAny(_, _, _, _, _)
DfsLoopAny(g, card_id, todo, path, st) ==
    IF todo = <<>> THEN st
    ELSE LET prereq_id == Head(todo)
             cycle == SubSeq(path, IndexOf(prereq_id, path), Len(path))
         IN  DfsLoopAny(g, card_id, Tail(todo), path,
                     IF prereq_id \notin NodeSet(g) THEN st
                     ELSE IF prereq_id \notin st.visited
                          THEN dfs(g, card_id, prereq_id, path, st)
                     ELSE IF InSeq(prereq_id, path)
                          THEN IF ~InSeq(cycle, st.cycles)
                               THEN [st EXCEPT !.cycles = Append(@, cycle)]
                               ELSE st
                     ELSE st)

\* The loop over the prerequisites of the last id of `path`.
DfsLoop(g, card_id, todo, path, st) ==
    IF todo = <<>> THEN st
    ELSE LET prereq_id == Head(todo)
             cycle == SubSeq(path, IndexOf(prereq_id, path), Len(path))
         IN  DfsLoop(g, card_id, Tail(todo), path,
                     IF prereq_id \notin NodeSet(g) THEN st
                     ELSE IF prereq_id \notin st.visited
                          THEN dfs(g, card_id, prereq_id, path, st)
                     ELSE IF InSeq(prereq_id, path)
                          THEN IF InSeq(card_id, cycle) /\ ~InSeq(cycle, st.cycles)
                               THEN [st EXCEPT !.cycles = Append(@, cycle)]
                               ELSE st
                     ELSE st)

\* Mutant: the cycle detect_cycles finds is reported for any card.
detect_cycles_for_card_global(g, card_id) == detect_cycles(g)

detect_cycles_for_card(g, card_id) ==
    IF card_id \in NodeSet(g)
    THEN dfs(g, card_id, card_id, <<>>, [visited |-> {}, cycles |-> <<>>]).cycles
    ELSE <<>>

(***************************************************************************)
(* graph_resolver.get_local_graph.  The sets prereqs and dependents are    *)
(* shared by the calls of each walk and threaded through the result.  The  *)
(* three node lists of the LocalGraphResult are built by iterating a set:  *)
(* each holds the ids of its set once, in an order the program does not    *)
(* control, and is kept here as that set.                                  *)
(***************************************************************************)
\* Mutant: the walk also collects prerequisites that have no node.
RECURSIVE walk_prereqs_any(_, _, _, _, _, _)
RECURSIVE WalkPrereqsAnyLoop(_, _, _, _, _, _)
walk_prereqs_any(g, cid, current_depth, depth, max_nodes, prereqs) ==
    IF current_depth > depth \/ Cardinality(prereqs) >= max_nodes THEN prereqs
    ELSE WalkPrereqsAnyLoop(g, get_prerequisites(g, cid), current_depth, depth, max_nodes, prereqs)

WalkPrereqsAnyLoop(g, todo, current_depth, depth, max_nodes, prereqs) ==
    IF todo = <<>> THEN prereqs
    ELSE WalkPrereqsAnyLoop(g, Tail(todo), current_depth, depth, max_nodes,
             IF Head(todo) \notin prereqs
             THEN walk_prereqs_any(g, Head(todo), current_depth + 1, depth, max_nodes,
                                   prereqs \cup {Head(todo)})
             ELSE prereqs)

\* Mutant: max_nodes is tested before every insertion.
RECURSIVE walk_prereqs_hard(_, _, _, _, _, _)
RECURSIVE WalkPrereqsHardLoop(_, _, _, _, _, _)
walk_prereqs_hard(g, cid, current_depth, depth, max_nodes, prereqs) ==
    IF current_depth > depth \/ Cardinality(prereqs) >= max_nodes THEN prereqs
    ELSE WalkPrereqsHardLoop(g, get_prerequisites(g, cid), current_depth, depth, max_nodes, prereqs)

WalkPrereqsHardLoop(g, todo, current_depth, depth, max_nodes, prereqs) ==
    IF todo = <<>> THEN prereqs
    ELSE WalkPrereqsHardLoop(g, Tail(todo), current_depth, depth, max_nodes,
             IF Head(todo) \notin prereqs /\ Head(todo) \in NodeSet(g)
                /\ Cardinality(prereqs) < max_nodes
             THEN walk_prereqs_hard(g, Head(todo), current_depth + 1, depth, max_nodes,
                                    prereqs \cup {Head(todo)})
             ELSE prereqs)

RECURSIVE walk_prereqs(_, _, _, _, _, _)
RECURSIVE WalkPrereqsLoop(_, _, _, _, _, _)
walk_prereqs(g, cid, current_depth, depth, max_nodes, prereqs) ==
    IF current_depth > depth \/ Cardinality(prereqs) >= max_nodes THEN prereqs
    ELSE WalkPrereqsLoop(g, get_prerequisites(g, cid), current_depth, depth, max_nodes, prereqs)

WalkPrereqsLoop(g, todo, current_depth, depth, max_nodes, prereqs) ==
    IF todo = <<>> THEN prereqs
    ELSE WalkPrereqsLoop(g, Tail(todo), current_depth, depth, max_nodes,
             IF Head(todo) \notin prereqs /\ Head(todo) \in NodeSet(g)
             THEN walk_prereqs(g, Head(todo), current_depth + 1, depth, max_nodes,
                               prereqs \cup {Head(todo)})
             ELSE prereqs)

RECURSIVE walk_dependents(_, _, _, _, _, _)
RECURSIVE WalkDependentsLoop(_, _, _, _, _, _)
walk_dependents(g, cid, current_depth, depth, max_nodes, dependents) ==
    IF current_depth > depth \/ Cardinality(dependents) >= max_nodes THEN dependents
    ELSE WalkDependentsLoop(g, get_dependents(g, cid), current_depth, depth, max_nodes, dependents)

WalkDependentsLoop(g, todo, current_depth, depth, max_nodes, dependents) ==
    IF todo = <<>> THEN dependents
    ELSE WalkDependentsLoop(g, Tail(todo), current_depth, depth, max_nodes,
             IF Head(todo) \notin dependents /\ Head(todo) \in NodeSet(g)
             THEN walk_dependents(g, Head(todo), current_depth + 1, depth, max_nodes,
                                  dependents \cup {Head(todo)})
             ELSE dependents)

\* for rel_id in graph.get_related(card_id): if rel_id in graph.nodes
related_ids_of(g, card_id) == Range(get_related(g, card_id)) \cap NodeSet(g)

\* The return value None.
NotFound == [found |-> FALSE, raised |-> "none", center |-> None, prerequisites |-> {},
             dependents |-> {}, related |-> {}, cycles |-> <<>>]

\* LocalGraphResult(...): graph.nodes[x] raises KeyError for an id without
\* a node.
LocalGraphResult(g, center, prereqs, dependents, related_ids, cycles) ==
    IF (prereqs \cup dependents \cup related_ids) \subseteq NodeSet(g)
    THEN [found |-> TRUE, raised |-> "none", center |-> center, prerequisites |-> prereqs,
          dependents |-> dependents, related |-> related_ids, cycles |-> cycles]
    ELSE [found |-> FALSE, raised |-> "KeyError", center |-> None, prerequisites |-> {},
          dependents |-> {}, related |-> {}, cycles |-> <<>>]

\* Mutant: the center is not looked up before the walks.
get_local_graph_unchecked(g, card_id, depth, max_nodes) ==
    LocalGraphResult(g, card_id,
                     walk_prereqs(g, card_id, 1, depth, max_nodes, {}),
                     walk_dependents(g, card_id, 1, depth, max_nodes, {}),
                     related_ids_of(g, card_id),
                     detect_cycles_for_card(g, card_id))

get_local_graph(g, card_id, depth, max_nodes) ==
    IF card_id \notin NodeSet(g) THEN NotFound
    ELSE LocalGraphResult(g, card_id,
                          walk_prereqs(g, card_id, 1, depth, max_nodes, {}),
                          walk_dependents(g, card_id, 1, depth, max_nodes, {}),
                          related_ids_of(g, card_id),
                          detect_cycles_for_card(g, card_id))

(***************************************************************************)
(* graph_resolver.build_graph over the card records of the vault, file by  *)
(* file.  A card record is [file, is_dict, id, deps_is_dict, requires,     *)
(* related]: `file` numbers the markdown file it stands in, is_dict and    *)
(* deps_is_dict tell whether the record and its deps are dicts; a missing  *)
(* id is None, an empty one EmptyId, an id that is a list or a dict        *)
(* Unhashable; a field that is no list is NotAList and a list entry that   *)
(* is no string NotAString.                                                *)
(***************************************************************************)
NotAString == "<not a string>"

NotAList == <<"<not a list>">>

EmptyId == ""

Unhashable == "<unhashable>"

\* A well-formed card record.
CardRecord(file, id, requires, related) ==
    [file |-> file, is_dict |-> TRUE, id |-> id, deps_is_dict |-> TRUE,
     requires |-> requires, related |-> related]

\* A record that is no dict.
NotADict(file) ==
    [file |-> file, is_dict |-> FALSE, id |-> None, deps_is_dict |-> FALSE,
     requires |-> NotAList, related |-> NotAList]

\* graph.add_node(node) stores the node in a mapping keyed by its id: an id
\* that cannot be hashed raises TypeError.
add_node_raises(id) == id = Unhashable

RECURSIVE AddAllRequires(_, _, _)
AddAllRequires(g, card_id, reqs) ==
    IF reqs = <<>> THEN g
    ELSE AddAllRequires(IF Head(reqs) = NotAString THEN g
                        ELSE add_requires(g, card_id, Head(reqs)),
                        card_id, Tail(reqs))

RECURSIVE AddAllRelated(_, _, _)
AddAllRelated(g, card_id, rels) ==
    IF rels = <<>> THEN g
    ELSE AddAllRelated(IF Head(rels) = NotAString THEN g
                       ELSE add_related(g, card_id, Head(rels)),
                       card_id, Tail(rels))

\* `if not card_id`
NoCardId(card) == card.id \in {None, EmptyId}

\* Mutant: a record without an id is not skipped and gets a node.
build_card_keep_idless(g, card) ==
    IF ~card.is_dict THEN g
    ELSE IF NoCardId(card) THEN add_node(g, card.id)
    ELSE LET g1 == add_node(g, card.id)
             g2 == IF card.requires = NotAList THEN g1
                   ELSE AddAllRequires(g1, card.id, card.requires)
         IN  IF ~card.deps_is_dict THEN g1
             ELSE IF card.related = NotAList THEN g2
             ELSE AddAllRelated(g2, card.id, card.related)

\* The body of `for card in cards` for one card record that raises nothing.
build_card(g, card) ==
    IF ~card.is_dict THEN g
    ELSE IF NoCardId(card) THEN g
    ELSE LET g1 == add_node(g, card.id)
             g2 == IF card.requires = NotAList THEN g1
                   ELSE AddAllRequires(g1, card.id, card.requires)
         IN  IF ~card.deps_is_dict THEN g1
             ELSE IF card.related = NotAList THEN g2
             ELSE AddAllRelated(g2, card.id, card.related)

\* The body raises: the exception leaves the loop over the cards of the
\* file and is caught by the `except` of the loop over the files.
CardRaises(card) == card.is_dict /\ ~NoCardId(card) /\ add_node_raises(card.id)

\* The two loops over the records that are left; `failed` is the file whose
\* processing was ended by an exception (0: none), the rest of which is
\* skipped.
RECURSIVE BuildFrom(_, _, _)
BuildFrom(g, cards, failed) ==
    IF cards = <<>> THEN g
    ELSE IF Head(cards).file = failed THEN BuildFrom(g, Tail(cards), failed)
    ELSE IF CardRaises(Head(cards)) THEN BuildFrom(g, Tail(cards), Head(cards).file)
    ELSE BuildFrom(build_card(g, Head(cards)), Tail(cards), failed)

build_graph(v) == BuildFrom(EmptyGraph, v, 0)

(***************************************************************************)
(* queue_builder._collect_prereqs: `visited` is one set object mutated by  *)
(* every call of the recursion, so it is threaded through the result.      *)
(***************************************************************************)
RECURSIVE collect_prereqs(_, _, _, _)
RECURSIVE CollectLoop(_, _, _, _, _)
collect_prereqs(g, card_id, depth, visited) ==
    IF depth <= 0 \/ card_id \in visited
    THEN [prereqs |-> {}, visited |-> visited]
    ELSE CollectLoop(g, get_prerequisites(g, card_id), depth, visited \cup {card_id}, {})

CollectLoop(g, todo, depth, visited, prereqs) ==
    IF todo = <<>> THEN [prereqs |-> prereqs, visited |-> visited]
    ELSE LET r == collect_prereqs(g, Head(todo), depth - 1, visited)
         IN  CollectLoop(g, Tail(todo), depth, r.visited,
                         prereqs \cup {Head(todo)} \cup r.prereqs)

(***************************************************************************)
(* Card statistics and WeakPrereqCriteria.  Python's None and a missing    *)
(* dict key are the two negative numbers below; float("inf") is Inf.       *)
(***************************************************************************)
NoneVal == -1

MissingKey == -2

Inf == 1000000

\* weak_criteria=None
NoCriteria == [given |-> FALSE, min_stability |-> NoneVal, max_lapses |-> NoneVal,
               min_reviews |-> NoneVal, max_interval |-> NoneVal]

\* An id with no entry in card_stats.
NoEntry == [present |-> FALSE, stability |-> MissingKey, lapses |-> MissingKey,
            reps |-> MissingKey, interval |-> MissingKey]

\* card_stats=None
NoStats == [given |-> FALSE, entries |-> [i \in Ids |-> NoEntry]]

\* dict.get(key, default)
Get(v, default) == IF v = MissingKey THEN default ELSE v

\* Mutant: a card without a stats entry is taken to be strong.
is_weak_prereq_nostats_strong(card_id, criteria, card_stats) ==
    IF ~criteria.given THEN TRUE
    ELSE IF ~card_stats.given \/ ~card_stats.entries[card_id].present THEN FALSE
    ELSE LET stats == card_stats.entries[card_id]
         IN  \/ criteria.min_stability # NoneVal /\ Get(stats.stability, NoneVal) # NoneVal
                /\ stats.stability < criteria.min_stability
             \/ criteria.max_lapses # NoneVal /\ Get(stats.lapses, 0) > criteria.max_lapses
             \/ criteria.min_reviews # NoneVal /\ Get(stats.reps, 0) < criteria.min_reviews
             \/ criteria.max_interval # NoneVal /\ Get(stats.interval, 0) < criteria.max_interval

\* Mutant: every card is weak.
is_weak_prereq_always(card_id, criteria, card_stats) == TRUE

\* queue_builder._is_weak_prereq
is_weak_prereq(card_id, criteria, card_stats) ==
    IF ~criteria.given THEN TRUE
    ELSE IF ~card_stats.given \/ ~card_stats.entries[card_id].present THEN TRUE
    ELSE LET stats == card_stats.entries[card_id]
         IN  \/ criteria.min_stability # NoneVal /\ Get(stats.stability, NoneVal) # NoneVal
                /\ stats.stability < criteria.min_stability
             \/ criteria.max_lapses # NoneVal /\ Get(stats.lapses, 0) > criteria.max_lapses
             \/ criteria.min_reviews # NoneVal /\ Get(stats.reps, 0) < criteria.min_reviews
             \/ criteria.max_interval # NoneVal /\ Get(stats.interval, 0) < criteria.max_interval

(***************************************************************************)
(* queue_builder.build_dependency_queue, step by step.                     *)
(***************************************************************************)
\* prereqs = _collect_prereqs(graph, due_id, depth, set()) for each due id.
collect_for_due(g, due_card_ids, depth) ==
    [i \in 1..Len(due_card_ids) |-> collect_prereqs(g, due_card_ids[i], depth, {}).prereqs]

\* all_prereqs after the loop: the collected ids that have a node.
all_prereqs_of(g, collected) ==
    UNION {collected[i] \cap NodeSet(g) : i \in 1..Len(collected)}

\* missing_prereqs after the loop: per due id, the collected ids without a
\* node that are not listed yet, appended in the order the set is iterated.
\* Mutant: an absent id is appended again for every due id that collects it.
RECURSIVE missing_prereqs_repeated(_, _, _, _)
missing_prereqs_repeated(g, collected, i, missing) ==
    IF i > Len(collected) THEN {missing}
    ELSE UNION {missing_prereqs_repeated(g, collected, i + 1, missing \o new) :
                   new \in Orderings(collected[i] \ NodeSet(g))}

RECURSIVE missing_prereqs_from(_, _, _, _)
missing_prereqs_from(g, collected, i, missing) ==
    IF i > Len(collected) THEN {missing}
    ELSE UNION {missing_prereqs_from(g, collected, i + 1, missing \o new) :
                   new \in Orderings((collected[i] \ NodeSet(g)) \ Range(missing))}

\* Mutant: the due cards stay in the candidate pool.
keep_due(all_prereqs, due_card_ids) == all_prereqs

\* all_prereqs -= set(due_card_ids)
remove_due(all_prereqs, due_card_ids) == all_prereqs \ Range(due_card_ids)

\* The sort key: card_stats.get(x, {}).get("stability", float("inf"))
stability_key(card_stats, x) ==
    IF ~card_stats.entries[x].present THEN Inf
    ELSE Get(card_stats.entries[x].stability, Inf)

\* list.sort(key=...) is a stable ascending sort: insert each element after
\* the elements whose key is not greater.
RECURSIVE InsertSorted(_, _, _)
InsertSorted(sorted, x, card_stats) ==
    IF sorted = <<>> THEN <<x>>
    ELSE IF stability_key(card_stats, x) < stability_key(card_stats, Head(sorted))
         THEN <<x>> \o sorted
         ELSE <<Head(sorted)>> \o InsertSorted(Tail(sorted), x, card_stats)

RECURSIVE SortByStability(_, _, _)
SortByStability(done, todo, card_stats) ==
    IF todo = <<>> THEN done
    ELSE SortByStability(InsertSorted(done, Head(todo), card_stats), Tail(todo), card_stats)

\* `if card_stats:` is false for None and for an empty dict.
Truthy(card_stats) == card_stats.given /\ \E i \in Ids : card_stats.entries[i].present

\* Comparing a None key with any key raises TypeError; a list of fewer than
\* two elements is sorted without a comparison.
SortRaises(weak_prereqs, card_stats) ==
    /\ Len(weak_prereqs) >= 2
    /\ \E i \in 1..Len(weak_prereqs) : stability_key(card_stats, weak_prereqs[i]) = NoneVal

\* weak_prereqs[:max_nodes] for max_nodes >= 0
Truncate(s, n) == SubSeq(s, 1, IF n < Len(s) THEN n ELSE Len(s))

\* The cap at max_nodes.
cap_weak(weak_prereqs, max_nodes, card_stats) ==
    IF Len(weak_prereqs) > max_nodes
    THEN IF Truthy(card_stats)
         THEN IF SortRaises(weak_prereqs, card_stats)
              THEN [raised |-> "TypeError", list |-> <<>>]
              ELSE [raised |-> "none",
                    list |-> Truncate(SortByStability(<<>>, weak_prereqs, card_stats), max_nodes)]
         ELSE [raised |-> "none", list |-> Truncate(weak_prereqs, max_nodes)]
    ELSE [raised |-> "none", list |-> weak_prereqs]

\* A call that ended in an exception.
Raised(exc, built, collected) ==
    [raised |-> exc, built |-> built, prereq_queue |-> <<>>, main_queue |-> <<>>,
     skipped_strong |-> <<>>, missing_prereqs |-> <<>>, cycles |-> <<>>,
     collected |-> collected]

\* Everything after the include_related test: the results the call can
\* produce, one per way the sets it iterates can be ordered.  `collected`
\* is the local value of `prereqs` for each due id.
queue_results(v, due_card_ids, depth, max_nodes, criteria, card_stats) ==
    LET g == build_graph(v)
        collected == collect_for_due(g, due_card_ids, depth)
        pool == remove_due(all_prereqs_of(g, collected), due_card_ids)
        weak == {x \in pool : is_weak_prereq(x, criteria, card_stats)}
        capped == {cap_weak(w, max_nodes, card_stats) : w \in Orderings(weak)}
        sorted == UNION {topological_sort(g, c.list) : c \in {k \in capped : k.raised = "none"}}
        mains == topological_sort(g, due_card_ids)
        cycles == detect_cycles(g)
    IN  {Raised(c.raised, TRUE, collected) : c \in {k \in capped : k.raised # "none"}}
        \cup
        {[raised |-> "none", built |-> TRUE, prereq_queue |-> pq.order,
          main_queue |-> mq.order, skipped_strong |-> ss, missing_prereqs |-> mp,
          cycles |-> cycles, collected |-> collected] :
            pq \in sorted, mq \in mains, ss \in Orderings(pool \ weak),
            mp \in missing_prereqs_from(g, collected, 1, <<>>)}

\* Mutant: include_related is ignored.
build_dependency_queue_related_ignored(v, due_card_ids, depth, max_nodes, include_related, criteria, card_stats) ==
    queue_results(v, due_card_ids, depth, max_nodes, criteria, card_stats)

build_dependency_queue(v, due_card_ids, depth, max_nodes, include_related, criteria, card_stats) ==
    IF include_related THEN {Raised("NotImplementedError", FALSE, <<>>)}
    ELSE queue_results(v, due_card_ids, depth, max_nodes, criteria, card_stats)

(***************************************************************************)
(* State machine: a DependencyGraph built through its methods, and the     *)
(* queries of graph_resolver.py applied to it.                             *)
(***************************************************************************)
NoCall == [op |-> "none"]

Init ==
    /\ graph = EmptyGraph
    /\ vault = <<>>
    /\ call = NoCall
    /\ result = None

AddNode ==
    /\ call = NoCall
    /\ \E i \in 1..Len(NodeOrder) :
        /\ NodeOrder[i] \in ApiIds
        /\ i <= Len(graph.nodes) + 1
        /\ graph' = add_node(graph, NodeOrder[i])
    /\ UNCHANGED <<vault, call, result>>

AddRequires ==
    /\ call = NoCall
    /\ RequiresCount(graph) < MaxEdges
    /\ \E from \in ApiIds, to \in ApiIds : graph' = add_requires(graph, from, to)
    /\ UNCHANGED <<vault, call, result>>

TopologicalSort ==
    /\ call = NoCall
    /\ \E card_ids \in ListsUpTo(ApiIds, MaxListLen) :
        /\ call' = [op |-> "topological_sort", card_ids |-> card_ids]
        /\ result' \in topological_sort(graph, card_ids)
    /\ UNCHANGED <<graph, vault>>

DetectCycles ==
    /\ call = NoCall
    /\ call' = [op |-> "detect_cycles"]
    /\ result' = detect_cycles(graph)
    /\ UNCHANGED <<graph, vault>>

Next ==
    \/ AddNode
    \/ AddRequires
    \/ TopologicalSort
    \/ DetectCycles

Spec == Init /\ [][Next]_vars

(***************************************************************************)
(* State machine: a DependencyGraph built through add_node, add_requires   *)
(* and add_related in any order, and its unresolved_refs view read.        *)
(***************************************************************************)
AddRelated ==
    /\ call = NoCall
    /\ RelatedCount(graph) < MaxRelatedEdges
    /\ \E from \in ApiIds, to \in ApiIds : graph' = add_related(graph, from, to)
    /\ UNCHANGED <<vault, call, result>>

UnresolvedRefs ==
    /\ call = NoCall
    /\ call' = [op |-> "unresolved_refs"]
    /\ result' = unresolved_refs(graph)
    /\ UNCHANGED <<graph, vault>>

NextApi ==
    \/ AddNode
    \/ AddRequires
    \/ AddRelated
    \/ UnresolvedRefs

SpecApi == Init /\ [][NextApi]_vars

(***************************************************************************)
(* State machine: the vault grows card by card, and                        *)
(* build_dependency_queue is called on it.  Cards are written in the       *)
(* order of NodeOrder and the due list starts with the first ids; up to    *)
(* renaming this loses only the position of a due card among the nodes.    *)
(***************************************************************************)
VaultEdges(v) == SumOver([i \in 1..Len(v) |-> Len(v[i].requires)], 1..Len(v))

WriteCard(targets, maxLen, maxEdges) ==
    /\ call = NoCall
    /\ Len(vault) < Len(NodeOrder)
    /\ \E reqs \in {r \in ListsUpTo(targets, maxLen) : NoDup(r)} :
        /\ VaultEdges(vault) + Len(reqs) <= maxEdges
        /\ vault' = Append(vault, CardRecord(Len(vault) + 1, NodeOrder[Len(vault) + 1],
                                              reqs, <<>>))
    /\ UNCHANGED <<graph, call, result>>

CallQueue(due_card_ids, depth, max_nodes, include_related, criteria, card_stats) ==
    /\ call = NoCall
    /\ call' = [op |-> "build_dependency_queue", due_card_ids |-> due_card_ids,
                depth |-> depth, max_nodes |-> max_nodes,
                include_related |-> include_related, criteria |-> criteria,
                card_stats |-> card_stats]
    /\ \E r \in build_dependency_queue(vault, due_card_ids, depth, max_nodes,
                                        include_related, criteria, card_stats) :
        /\ result' = r
        /\ graph' = IF r.built THEN build_graph(vault) ELSE graph
    /\ UNCHANGED vault

DueLists == {<<>>, <<"a">>, <<"a", "b">>, <<"a", "a">>}

\* A stats entry that holds (or lacks) a stability and nothing else.
StabilityEntry(st) == [present |-> TRUE, stability |-> st, lapses |-> MissingKey,
                       reps |-> MissingKey, interval |-> MissingKey]

StabilityEntries == {NoEntry} \cup {StabilityEntry(st) : st \in {MissingKey, NoneVal, 5, 50}}

StatIds == {"b", "c"}

StatsChoices ==
    {NoStats} \cup
    {[given |-> TRUE, entries |-> [i \in Ids |-> IF i \in StatIds THEN f[i] ELSE NoEntry]] :
        f \in [StatIds -> StabilityEntries]}

MinStability(ms) == [given |-> TRUE, min_stability |-> ms, max_lapses |-> NoneVal,
                     min_reviews |-> NoneVal, max_interval |-> NoneVal]

\* Calls with the default max_nodes, no criteria and no stats.
BuildQueue ==
    \E due_card_ids \in DueLists, depth \in 1..MaxDepth, include_related \in BOOLEAN :
        CallQueue(due_card_ids, depth, DefaultMaxNodes, include_related, NoCriteria, NoStats)

\* Calls for the due card "a" with statistics, criteria and a small cap.
BuildQueueWithStats ==
    \E max_nodes \in (0..MaxCap) \cup {DefaultMaxNodes},
       criteria \in {NoCriteria, MinStability(10)},
       card_stats \in StatsChoices :
        CallQueue(<<"a">>, DefaultDepth, max_nodes, FALSE, criteria, card_stats)

\* Direct calls of _is_weak_prereq, a function of its arguments alone.
AllCriteria ==
    {NoCriteria} \cup
    [given : {TRUE}, min_stability : {NoneVal, 10}, max_lapses : {NoneVal, 2},
     min_reviews : {NoneVal, 3}, max_interval : {NoneVal, 7}]

AllEntries ==
    {NoEntry} \cup
    [present : {TRUE}, stability : {MissingKey, NoneVal, 5, 10, 50},
     lapses : {MissingKey, 0, 2, 3}, reps : {MissingKey, 0, 3, 5},
     interval : {MissingKey, 0, 7, 30}]

IsWeakPrereq ==
    /\ call = NoCall
    /\ vault = <<>>
    /\ \E criteria \in AllCriteria, entry \in AllEntries, given \in BOOLEAN :
        LET card_stats == IF given THEN [given |-> TRUE, entries |-> [i \in Ids |-> IF i = "a" THEN entry ELSE NoEntry]]
                          ELSE NoStats
        IN  /\ (~given => entry = NoEntry)
            /\ call' = [op |-> "_is_weak_prereq", card_id |-> "a", criteria |-> criteria,
                        card_stats |-> card_stats]
            /\ result' = is_weak_prereq("a", criteria, card_stats)
    /\ UNCHANGED <<graph, vault>>

NextQueue ==
    \/ WriteCard(Range(NodeOrder), MaxVaultEdges, MaxVaultEdges)
    \/ BuildQueue
    \/ BuildQueueWithStats
    \/ IsWeakPrereq

SpecQueue == Init /\ [][NextQueue]_vars

\* Deeper vaults, whose cards may also require the id "e" that never has a
\* card, queried for the due card "a" only.
BuildQueueDeep ==
    \E depth \in 1..MaxDeepDepth :
        CallQueue(<<"a">>, depth, DefaultMaxNodes, FALSE, NoCriteria, NoStats)

NextDeep ==
    \/ WriteCard(Ids, DeepListLen, MaxDeepEdges)
    \/ BuildQueueDeep

SpecDeep == Init /\ [][NextDeep]_vars

\* Deeper vaults queried for two due cards, in either order.
PairDueLists == {<<"a", "b">>, <<"b", "a">>}

BuildQueuePair ==
    \E due_card_ids \in PairDueLists, depth \in 1..MaxDepth :
        CallQueue(due_card_ids, depth, DefaultMaxNodes, FALSE, NoCriteria, NoStats)

NextPair ==
    \/ WriteCard(Ids, DeepListLen, MaxDeepEdges)
    \/ BuildQueuePair

SpecPair == Init /\ [][NextPair]_vars

(***************************************************************************)
(* State machine: the graph is built card by card, each card by one pass   *)
(* of the loop of build_graph, and get_local_graph and                     *)
(* detect_cycles_for_card are called on it.  A requires or related entry   *)
(* may name a card that is not written (yet): an id without a node.  Only  *)
(* the first card may have a related entry, naming the second card.        *)
(***************************************************************************)
AddCard ==
    /\ call = NoCall
    /\ Len(vault) < Len(NodeOrder)
    /\ \E reqs \in {r \in ListsUpTo(Range(NodeOrder), MaxLocalEdges) : NoDup(r)},
          rels \in ListsUpTo({"b"}, 1) :
        /\ VaultEdges(vault) + Len(reqs) <= MaxLocalEdges
        /\ (rels # <<>> => vault = <<>>)
        /\ LET card == CardRecord(Len(vault) + 1, NodeOrder[Len(vault) + 1], reqs, rels)
           IN  /\ vault' = Append(vault, card)
               /\ graph' = build_card(graph, card)
    /\ UNCHANGED <<call, result>>

\* The center of a query: the first card, which alone may have a related
\* entry, or the last one, which has no node until four cards are written.
LocalCenters == {"a", "d"}

GetLocalGraph ==
    /\ call = NoCall
    /\ \E card_id \in LocalCenters, depth \in 1..MaxLocalDepth,
          max_nodes \in (0..MaxLocalCap) \cup {DefaultLocalMaxNodes} :
        /\ call' = [op |-> "get_local_graph", card_id |-> card_id, depth |-> depth,
                    max_nodes |-> max_nodes]
        /\ result' = get_local_graph(graph, card_id, depth, max_nodes)
    /\ UNCHANGED <<graph, vault>>

DetectCyclesForCard ==
    /\ call = NoCall
    /\ \E card_id \in LocalCenters :
        /\ call' = [op |-> "detect_cycles_for_card", card_id |-> card_id]
        /\ result' = detect_cycles_for_card(graph, card_id)
    /\ UNCHANGED <<graph, vault>>

NextLocal ==
    \/ AddCard
    \/ GetLocalGraph
    \/ DetectCyclesForCard

SpecLocal == Init /\ [][NextLocal]_vars

\* The graph of SpecLocal queried by each traversal: the two walks inside
\* get_local_graph, detect_cycles_for_card, and _collect_prereqs called
\* with a new visited set, as build_dependency_queue calls it.
CollectPrereqs ==
    /\ call = NoCall
    /\ \E card_id \in LocalCenters, depth \in 0..MaxCollectDepth :
        /\ call' = [op |-> "_collect_prereqs", card_id |-> card_id, depth |-> depth]
        /\ result' = collect_prereqs(graph, card_id, depth, {}).prereqs
    /\ UNCHANGED <<graph, vault>>

NextTraverse ==
    \/ AddCard
    \/ GetLocalGraph
    \/ DetectCyclesForCard
    \/ CollectPrereqs

SpecTraverse == Init /\ [][NextTraverse]_vars

(***************************************************************************)
(* State machine: card records of any shape are written to the files of    *)
(* the vault, a record going to the last file or to a new one, and         *)
(* build_graph is called on the vault.                                     *)
(***************************************************************************)
RecordIds == {None, EmptyId, Unhashable, "a", "b"}

RequiresValues == {NotAList, <<>>, <<"b">>, <<NotAString, "a">>}

RelatedValues == {NotAList, <<"a">>}

\* The records that are dicts: deps that are no dict hold no lists.
DictRecords(file) ==
    {[file |-> file, is_dict |-> TRUE, id |-> id, deps_is_dict |-> TRUE,
      requires |-> reqs, related |-> rels] :
        id \in RecordIds, reqs \in RequiresValues, rels \in RelatedValues}
    \cup
    {[file |-> file, is_dict |-> TRUE, id |-> id, deps_is_dict |-> FALSE,
      requires |-> NotAList, related |-> NotAList] : id \in RecordIds}

LastFile(v) == IF v = <<>> THEN 0 ELSE v[Len(v)].file

AddRecord ==
    /\ call = NoCall
    /\ Len(vault) < MaxRecords
    /\ \E file \in {LastFile(vault), LastFile(vault) + 1} :
        /\ file >= 1
        /\ \E card \in DictRecords(file) \cup {NotADict(file)} :
               vault' = Append(vault, card)
    /\ UNCHANGED <<graph, call, result>>

BuildGraph ==
    /\ call = NoCall
    /\ call' = [op |-> "build_graph"]
    /\ graph' = build_graph(vault)
    /\ result' = Len(graph'.nodes)
    /\ UNCHANGED vault

NextBuild ==
    \/ AddRecord
    \/ BuildGraph

SpecBuild == Init /\ [][NextBuild]_vars

(***************************************************************************)
(* Reference notions the claims are stated with (not code).                *)
(***************************************************************************)
\* a requires b
Edge(g, a, b) == InSeq(b, g.requires[a])

\* The ids of S reached from the set X by 1..n requires edges that stay
\* inside S.
RECURSIVE ReachInside(_, _, _, _)
ReachInside(g, S, X, n) ==
    IF n = 0 \/ X = {} THEN {}
    ELSE LET N == {y \in S : \E x \in X : Edge(g, x, y)}
         IN  N \cup ReachInside(g, S, N, n - 1)

\* The requires edges with both endpoints in S contain a cycle.
Cyclic(g, S) == \E x \in S : x \in ReachInside(g, S, {x}, Cardinality(S))

Before(x, y, s) == InSeq(x, s) /\ InSeq(y, s) /\ IndexOf(x, s) < IndexOf(y, s)

(***************************************************************************)
(* Claims about topological_sort and detect_cycles, under Spec.            *)
(***************************************************************************)
TopoCalled == call.op = "topological_sort"

\* C1: when the requires edges among the requested existing ids are
\* acyclic, topological_sort puts every prerequisite at a smaller index
\* than its dependent, and a chain x requires y requires z comes out as
\* exactly [z, y, x].
C1_PrerequisiteFirst ==
    TopoCalled =>
        LET S == valid_ids(graph, call.card_ids)
        IN  ~Cyclic(graph, S) =>
                /\ \A x, y \in Range(result.order) :
                       Edge(graph, x, y) => Before(y, x, result.order)
                /\ \A x, y, z \in S :
                       (/\ S = {x, y, z} /\ x # y /\ y # z /\ x # z
                        /\ FilterIn(graph.requires[x], S) = <<y>>
                        /\ FilterIn(graph.requires[y], S) = <<z>>
                        /\ FilterIn(graph.requires[z], S) = <<>>)
                           => result.order = <<z, y, x>>

\* C1 witness: the chain a requires b requires c sorted from [a, b, c].
C1_Witness ==
    /\ TopoCalled
    /\ call.card_ids = <<"a", "b", "c">>
    /\ graph.nodes = <<"a", "b", "c">>
    /\ graph.requires["a"] = <<"b">>
    /\ graph.requires["b"] = <<"c">>
    /\ graph.requires["c"] = <<>>
    /\ result.order = <<"c", "b", "a">>

\* C2: when the requested ids contain a requires-cycle, topological_sort
\* returns the ids in their original input order (stated for id lists
\* without repetition whose ids all have a node).
C2_FallbackKeepsInputOrder ==
    (/\ TopoCalled
     /\ NoDup(call.card_ids)
     /\ Range(call.card_ids) \subseteq NodeSet(graph)
     /\ Cyclic(graph, Range(call.card_ids)))
        => result.order = call.card_ids

\* C3: detect_cycles returns the empty list exactly when the requires
\* edges between existing nodes are acyclic (a card requiring itself is a
\* cycle; an edge from or to an id without a node is none).
C3_EmptyIffAcyclic ==
    call.op = "detect_cycles" => (result = <<>> <=> ~Cyclic(graph, NodeSet(graph)))

\* C3 witness: a node requires itself and an id without a node, and
\* detect_cycles reports a cycle.
C3_Witness ==
    /\ call.op = "detect_cycles"
    /\ \E x \in NodeSet(graph), y \in Ids \ NodeSet(graph) :
           Edge(graph, x, x) /\ Edge(graph, x, y)
    /\ result # <<>>

(***************************************************************************)
(* Claims about build_dependency_queue and _is_weak_prereq, under          *)
(* SpecQueue and SpecDeep.                                                 *)
(***************************************************************************)
QueueCalled == call.op = "build_dependency_queue"

QueueReturned == QueueCalled /\ result.raised = "none"

\* The ids reached from d by 1..n requires edges.
ReachWithin(g, d, n) == ReachInside(g, Ids, {d}, n)

\* The candidate pool of the call: the collected ids that have a node and
\* are not due.
Candidates ==
    (UNION {result.collected[i] : i \in 1..Len(result.collected)} \cap NodeSet(graph))
        \ Range(call.due_card_ids)

\* A value that is neither None nor a missing key.
Known(v) == v # NoneVal /\ v # MissingKey

\* A count that is not recorded is 0.
Count(v) == IF v = MissingKey THEN 0 ELSE v

\* The configured thresholds of c that the stats entry e triggers.
Triggered(c, e) ==
    {t \in {"min_stability", "max_lapses", "min_reviews", "max_interval"} :
        \/ t = "min_stability" /\ c.min_stability # NoneVal
           /\ Known(e.stability) /\ e.stability < c.min_stability
        \/ t = "max_lapses" /\ c.max_lapses # NoneVal /\ Count(e.lapses) > c.max_lapses
        \/ t = "min_reviews" /\ c.min_reviews # NoneVal /\ Count(e.reps) < c.min_reviews
        \/ t = "max_interval" /\ c.max_interval # NoneVal /\ Count(e.interval) < c.max_interval}

\* The classification as the specification words it.
ClaimWeak(x, c, cs) ==
    \/ ~c.given
    \/ ~cs.given
    \/ ~cs.entries[x].present
    \/ Triggered(c, cs.entries[x]) # {}

\* The stability the cap sorts by: a missing one counts as +infinity.
ClaimStability(x, cs) ==
    IF cs.given /\ cs.entries[x].present /\ Known(cs.entries[x].stability)
    THEN cs.entries[x].stability
    ELSE Inf

\* C4: no due id appears in prereq_queue, also when it is a prerequisite of
\* another due id or of itself through a cycle.
C4_NoDueInPrereqQueue ==
    QueueReturned => Range(call.due_card_ids) \cap Range(result.prereq_queue) = {}

\* C4 witness: the due card b was collected as a prerequisite of the due
\* card a, and the prerequisite queue is not empty.
C4_Witness ==
    /\ QueueReturned
    /\ call.due_card_ids = <<"a", "b">>
    /\ "b" \in result.collected[1]
    /\ "b" \in NodeSet(graph)
    /\ result.prereq_queue # <<>>

\* C5: a call with include_related=True ends in NotImplementedError, returns
\* no queue, and raises before the graph is built.
C5_RelatedNotImplemented ==
    (QueueCalled /\ call.include_related) =>
        /\ result.raised = "NotImplementedError"
        /\ ~result.built
        /\ graph = EmptyGraph
        /\ result.prereq_queue = <<>>
        /\ result.main_queue = <<>>

\* C5 witness: include_related=True on a vault with cards and requires
\* entries, with a due card.
C5_Witness ==
    /\ QueueCalled
    /\ call.include_related
    /\ call.due_card_ids = <<"a">>
    /\ Len(vault) >= 2
    /\ vault[1].requires # <<>>
    /\ result.raised = "NotImplementedError"

\* C6: a candidate is weak when no criteria are given, weak when it has no
\* stats entry, and otherwise weak exactly when a configured threshold
\* triggers; so without criteria skipped_strong is empty.
C6_WeakClassification ==
    /\ call.op = "_is_weak_prereq" =>
           (result <=> ClaimWeak(call.card_id, call.criteria, call.card_stats))
    /\ (QueueReturned /\ ~call.criteria.given) => result.skipped_strong = <<>>

\* C6 witness: two thresholds are configured, the stability does not
\* trigger, the lapses do, and the card is weak.
C6_Witness ==
    /\ call.op = "_is_weak_prereq"
    /\ call.criteria.given
    /\ call.criteria.min_stability = 10
    /\ call.criteria.max_lapses = 2
    /\ call.card_stats.given
    /\ call.card_stats.entries["a"].stability = 50
    /\ call.card_stats.entries["a"].lapses = 3
    /\ result = TRUE

\* C7: skipped_strong is exactly the strong candidates, prereq_queue holds
\* only weak candidates, the two are disjoint, and when the weak candidates
\* number at most max_nodes the two lists together are the whole pool.
C7_WeakStrongPartition ==
    QueueReturned =>
        LET strong == {x \in Candidates : ~ClaimWeak(x, call.criteria, call.card_stats)}
        IN  /\ Range(result.skipped_strong) = strong
            /\ NoDup(result.skipped_strong)
            /\ Range(result.prereq_queue) \subseteq Candidates \ strong
            /\ Range(result.prereq_queue) \cap Range(result.skipped_strong) = {}
            /\ Cardinality(Candidates \ strong) <= call.max_nodes =>
                   Range(result.prereq_queue) \cup Range(result.skipped_strong) = Candidates

\* C7 witness: a is due and requires b (stability 5) and c (stability 50);
\* with min_stability=10, prereq_queue is [b] and skipped_strong is [c].
C7_Witness ==
    /\ QueueReturned
    /\ call.due_card_ids = <<"a">>
    /\ graph.requires["a"] = <<"b", "c">>
    /\ call.criteria = MinStability(10)
    /\ call.card_stats.given
    /\ call.card_stats.entries["b"] = StabilityEntry(5)
    /\ call.card_stats.entries["c"] = StabilityEntry(50)
    /\ result.prereq_queue = <<"b">>
    /\ result.skipped_strong = <<"c">>

\* C8: when more than max_nodes candidates are weak, the call does not
\* raise, keeps exactly max_nodes of them, and drops no card whose stability
\* is lower than that of a kept one (a missing stability is +infinity).
C8_CapKeepsWeakest ==
    LET weak == {x \in Candidates : ClaimWeak(x, call.criteria, call.card_stats)}
    IN  (QueueCalled /\ ~call.include_related /\ Cardinality(weak) > call.max_nodes) =>
            /\ result.raised = "none"
            /\ Len(result.prereq_queue) = call.max_nodes
            /\ \A kept \in Range(result.prereq_queue), dropped \in weak \ Range(result.prereq_queue) :
                   ~(ClaimStability(dropped, call.card_stats) < ClaimStability(kept, call.card_stats))

\* C9: prereq_queue and main_queue together hold at most max_nodes cards.
C9_TotalWithinMaxNodes ==
    QueueReturned => Len(result.prereq_queue) + Len(result.main_queue) <= call.max_nodes

\* C10: for each due id the collection is exactly the ids within `depth`
\* requires edges of it (compared apart from the due ids themselves, which
\* never stay in the pool), and the candidate pool and missing_prereqs are
\* fed with exactly the union of these sets (the pool is read off the two
\* result lists when max_nodes cuts nothing).
C10_CollectsAllWithinDepth ==
    QueueReturned =>
        LET due == call.due_card_ids
            within == UNION {ReachWithin(graph, due[i], call.depth) : i \in 1..Len(due)}
        IN  /\ \A i \in 1..Len(due) :
                   result.collected[i] \ Range(due)
                       = ReachWithin(graph, due[i], call.depth) \ Range(due)
            /\ Range(result.missing_prereqs) = within \ NodeSet(graph)
            /\ Cardinality(within) <= call.max_nodes =>
                   Range(result.prereq_queue) \cup Range(result.skipped_strong)
                       = (within \cap NodeSet(graph)) \ Range(due)

\* The first due id (by position) whose collection holds x.
FirstDue(x) ==
    CHOOSE i \in 1..Len(result.collected) :
        x \in result.collected[i] /\ \A j \in 1..(i - 1) : x \notin result.collected[j]

C15_NeverRaises ==
    (QueueCalled /\ ~call.include_related) => result.raised = "none"

(***************************************************************************)
(* Claims about get_local_graph and detect_cycles_for_card, under          *)
(* SpecLocal.                                                              *)
(***************************************************************************)
LocalCalled == call.op = "get_local_graph"

\* The ids of S that reach the set X by 1..n requires edges that stay
\* inside S.
RECURSIVE ReachBackInside(_, _, _, _)
ReachBackInside(g, S, X, n) ==
    IF n = 0 \/ X = {} THEN {}
    ELSE LET N == {y \in S : \E x \in X : Edge(g, y, x)}
         IN  N \cup ReachBackInside(g, S, N, n - 1)

\* The simple requires-cycles through c among the nodes of g, each written
\* from c: [c, n1, ..., nk] with c -> n1 -> ... -> nk -> c.
SimpleCycles(g, c) ==
    {p \in ListsUpTo(NodeSet(g), Cardinality(NodeSet(g))) :
        /\ p # <<>>
        /\ p[1] = c
        /\ NoDup(p)
        /\ \A i \in 1..(Len(p) - 1) : Edge(g, p[i], p[i + 1])
        /\ Edge(g, p[Len(p)], c)}

\* C12: with max_nodes above the number of nodes, the prerequisites of the
\* result are exactly the nodes reached from the center by 1..depth requires
\* edges through nodes, and the dependents exactly the nodes that reach it so.
C12_LocalGraphWithinDepth ==
    (LocalCalled /\ result.found /\ call.max_nodes > Cardinality(NodeSet(graph))) =>
        /\ result.prerequisites
               = ReachInside(graph, NodeSet(graph), {call.card_id}, call.depth)
        /\ result.dependents
               = ReachBackInside(graph, NodeSet(graph), {call.card_id}, call.depth)

\* C13: get_local_graph returns without error, and every id in the
\* prerequisites, dependents and related of its result is a node: a target
\* without a node is left out of all three.
C13_OnlyExistingNodes ==
    LocalCalled =>
        /\ result.raised = "none"
        /\ result.found =>
               (result.prerequisites \cup result.dependents \cup result.related)
                   \subseteq NodeSet(graph)

\* C13 witness: the center requires, and is related to, an id without a
\* node, and a result is returned without that id.
C13_Witness ==
    /\ LocalCalled
    /\ call.card_id = "a"
    /\ \E ghost \in Ids \ NodeSet(graph) :
           /\ Edge(graph, "a", ghost)
           /\ InSeq(ghost, graph.related["a"])
           /\ ghost \notin result.prerequisites \cup result.related
    /\ result.found
    /\ result.raised = "none"

\* C14: detect_cycles_for_card reports every simple requires-cycle through
\* the card among the nodes, as the list of its ids starting from the card.
C14_EveryCycleThroughCard ==
    call.op = "detect_cycles_for_card" =>
        \A p \in SimpleCycles(graph, call.card_id) : InSeq(p, result)

\* C16: get_local_graph returns None exactly when the center has no node,
\* and otherwise a result whose center is that node.
C16_NoneIffUnknownCenter ==
    LocalCalled =>
        /\ result = NotFound <=> call.card_id \notin NodeSet(graph)
        /\ call.card_id \in NodeSet(graph) =>
               result.found /\ result.center = call.card_id

\* C16 witness: the center has no node although a card requires it, and
\* None is returned.
C16_Witness ==
    /\ LocalCalled
    /\ call.card_id \notin NodeSet(graph)
    /\ \E x \in NodeSet(graph) : Edge(graph, x, call.card_id)
    /\ result = NotFound

(***************************************************************************)
(* Claims about build_graph, under SpecBuild.                              *)
(***************************************************************************)
BuildCalled == call.op = "build_graph"

\* A record that is a dict with a non-empty id.
HasId(card) == card.is_dict /\ card.id \notin {None, EmptyId}

\* The string entries a record contributes through a field: none when its
\* deps or the field are malformed.
Entries(card, field) ==
    IF ~card.deps_is_dict \/ field = NotAList THEN {}
    ELSE Range(field) \ {NotAString}

\* The records of the vault that are dicts with the id x.
RecordsOf(x) == {i \in 1..Len(vault) : HasId(vault[i]) /\ vault[i].id = x}

\* C17: whatever malformed records the vault holds, every record with a
\* usable id has its node, and the requires and related edges of each id are
\* exactly the string entries of the well-formed lists of its records.
C17_MalformedRecordsIsolated ==
    BuildCalled =>
        \A x \in Ids :
            /\ RecordsOf(x) # {} => x \in NodeSet(graph)
            /\ Range(graph.requires[x])
                   = UNION {Entries(vault[i], vault[i].requires) : i \in RecordsOf(x)}
            /\ Range(graph.related[x])
                   = UNION {Entries(vault[i], vault[i].related) : i \in RecordsOf(x)}

\* C18: a record without a non-empty id gives no node and no edge: the
\* nodes are the ids of the other records only, every edge starts at one of
\* these, and a vault of id-less records alone gives a graph without nodes.
C18_IdlessRecordsDropped ==
    BuildCalled =>
        LET ids == {vault[i].id : i \in {j \in 1..Len(vault) : HasId(vault[j])}}
        IN  /\ NodeSet(graph) \subseteq ids
            /\ \A x \in Ids \ ids : graph.requires[x] = <<>> /\ graph.related[x] = <<>>
            /\ ids = {} => (graph = EmptyGraph /\ result = 0)

\* C18 witness: the vault holds only records without an id, one of them
\* with a requires entry, and the graph built from it is empty.
C18_Witness ==
    /\ BuildCalled
    /\ Len(vault) = 2
    /\ vault[1].is_dict /\ vault[1].id = None /\ vault[1].requires = <<"b">>
    /\ vault[2].is_dict /\ vault[2].id = EmptyId
    /\ graph = EmptyGraph

(***************************************************************************)
(* Claims about the DependencyGraph, under SpecApi.                        *)
(***************************************************************************)
\* a is related to b
RelatedEdge(g, a, b) == InSeq(b, g.related[a])

\* C19: unresolved_refs lists t under s exactly when s requires or is
\* related to t and t has no node; being computed from the graph as it is,
\* it lists no id that has got its node since the edge was added.
C19_UnresolvedRefs ==
    call.op = "unresolved_refs" =>
        \A s, t \in Ids :
            InSeq(t, result[s]) <=>
                /\ Edge(graph, s, t) \/ RelatedEdge(graph, s, t)
                /\ t \notin NodeSet(graph)

\* C19 witness: a source requires one id that has a node and is related to
\* another that has none; only the second is listed.
C19_Witness ==
    /\ call.op = "unresolved_refs"
    /\ \E s \in Ids, t \in NodeSet(graph), u \in Ids \ NodeSet(graph) :
           /\ Edge(graph, s, t)
           /\ RelatedEdge(graph, s, u)
           /\ result[s] = <<u>>

\* The list `new` is the list `old`, or `old` with one id it did not hold
\* added at its end.
GrowsAtEnd(old, new) ==
    \/ new = old
    \/ /\ Len(new) = Len(old) + 1
       /\ SubSeq(new, 1, Len(old)) = old
       /\ ~InSeq(new[Len(new)], old)

\* C20: in every step each list of prerequisites and of dependents stays as
\* it is or gets one new id at its end (insertion order, no duplicates), and
\* afterwards b is a prerequisite of a exactly when a is a dependent of b.
C20_ReverseIndex ==
    [][/\ \A a \in Ids :
              /\ GrowsAtEnd(get_prerequisites(graph, a), get_prerequisites(graph', a))
              /\ GrowsAtEnd(get_dependents(graph, a), get_dependents(graph', a))
       /\ \A a, b \in Ids :
              InSeq(b, get_prerequisites(graph', a)) <=> InSeq(a, get_dependents(graph', b))]_vars

\* C20 witness: one id has two prerequisites, one of them without a node,
\* and one id has two dependents.
C20_Witness ==
    /\ call = NoCall
    /\ \E a, b \in Ids :
           /\ Len(get_prerequisites(graph, a)) = 2
           /\ Range(get_prerequisites(graph, a)) \ NodeSet(graph) # {}
           /\ Len(get_dependents(graph, b)) = 2

(***************************************************************************)
(* Further claims about get_local_graph and detect_cycles_for_card, under  *)
(* SpecLocal.                                                              *)
(***************************************************************************)
\* The direct prerequisites and dependents of cid that have a node.
DirectPrereqs(g, cid) == Range(get_prerequisites(g, cid)) \cap NodeSet(g)

DirectDependents(g, cid) == Range(get_dependents(g, cid)) \cap NodeSet(g)

CyclesCalled == call.op = "detect_cycles_for_card"

\* C23: every list detect_cycles_for_card(graph, c) reports is a cycle
\* through c: it starts with c, repeats no id, holds existing nodes only,
\* each id requires the next and the last requires c; and no list is
\* reported twice.
C23_ReportedCyclesAreTrue ==
    CyclesCalled =>
        /\ \A i \in 1..Len(result) : result[i] \in SimpleCycles(graph, call.card_id)
        /\ NoDup(result)

\* C23 witness: the card lies on two cycles, one through each of two
\* other cards, and both are reported.
C23_Witness ==
    /\ CyclesCalled
    /\ Len(result) = 2
    /\ Len(result[1]) = 2 /\ Len(result[2]) = 2
    /\ result[1][2] # result[2][2]

\* The card has a node and lies on a requires-cycle among existing nodes.
OnCycle(g, c) ==
    c \in NodeSet(g) /\ c \in ReachInside(g, NodeSet(g), {c}, Cardinality(NodeSet(g)))

\* C28: detect_cycles_for_card(graph, c) is non-empty exactly when c has a
\* node and lies on a requires-cycle among existing nodes (so a card that
\* only reaches a cycle gets an empty result), and whenever it is
\* non-empty detect_cycles(graph) is non-empty too.
C28_NonEmptyIffOnCycle ==
    CyclesCalled =>
        /\ result # <<>> <=> OnCycle(graph, call.card_id)
        /\ result # <<>> => detect_cycles(graph) # <<>>

\* C28 witness: the card requires itself through two other cards, and a
\* cycle is reported.
C28_Witness ==
    /\ CyclesCalled
    /\ OnCycle(graph, call.card_id)
    /\ ~Edge(graph, call.card_id, call.card_id)
    /\ result # <<>>
    /\ Len(result[1]) = 3

(***************************************************************************)
(* Further claims about detect_cycles and topological_sort, under Spec.    *)
(***************************************************************************)
\* The list c is a closed walk along requires edges between existing
\* nodes: it ends where it starts and each id is required by the next.
ClosedWalk(g, c) ==
    /\ Len(c) >= 2
    /\ c[1] = c[Len(c)]
    /\ Range(c) \subseteq NodeSet(g)
    /\ \A i \in 1..(Len(c) - 1) : Edge(g, c[i + 1], c[i])

RECURSIVE SharedVisitedUnion(_, _, _, _)
SharedVisitedUnion(g, due, depth, visited) ==
    IF due = <<>> THEN {}
    ELSE LET r == collect_prereqs(g, Head(due), depth, visited)
         IN  r.prereqs \cup SharedVisitedUnion(g, Tail(due), depth, r.visited)

\* C24: the ids collected with a new visited set per due id, as the code
\* does, are together the ids _collect_prereqs collects when one visited
\* set is shared by all due ids (compared apart from the due ids, which
\* feed neither the candidate pool nor, having a node, missing_prereqs).
C24_SharedVisitedSameUnion ==
    QueueReturned =>
        UNION {result.collected[i] : i \in 1..Len(result.collected)} \ Range(call.due_card_ids)
            = SharedVisitedUnion(graph, call.due_card_ids, call.depth, {}) \ Range(call.due_card_ids)

(***************************************************************************)
(* The order topological_sort returns, under Spec and SpecQueue.           *)
(***************************************************************************)
\* C25: a successful topological_sort is a function of the graph and the
\* id list: whichever way the set valid_ids is iterated, the call returns
\* the same list.
C25_DeterministicOrder ==
    (TopoCalled /\ ~result.warned) =>
        \A r \in topological_sort(graph, call.card_ids) : r.order = result.order

\* C26: in an acyclic graph, when a card of prereq_queue requires another
\* card of prereq_queue through a chain of requires edges, whatever cards
\* the chain passes through, the required card comes first.
C26_TransitiveOrder ==
    (QueueReturned /\ ~Cyclic(graph, NodeSet(graph))) =>
        \A x, y \in Range(result.prereq_queue) :
            y \in ReachInside(graph, Ids, {x}, Cardinality(Ids))
                => Before(y, x, result.prereq_queue)

\* C29: topological_sort falls back to the unsorted list exactly when the
\* requires edges between requested ids that have a node contain a cycle;
\* a cycle elsewhere, or one through a card outside the request, leaves
\* the result ordered; and either way the result holds exactly the
\* requested ids that have a node, each once.
C29_FallbackIffSubsetCyclic ==
    TopoCalled =>
        LET S == valid_ids(graph, call.card_ids)
        IN  /\ result.warned <=> Cyclic(graph, S)
            /\ Range(result.order) = S
            /\ NoDup(result.order)
            /\ ~Cyclic(graph, S) =>
                   \A x, y \in S : Edge(graph, x, y) => Before(y, x, result.order)

\* C29 witness: a cycle of three cards of which two are requested: the
\* result is ordered by the edge between the two.
C29_Witness ==
    /\ TopoCalled
    /\ Range(call.card_ids) = {"a", "b"}
    /\ Edge(graph, "a", "b") /\ Edge(graph, "b", "c") /\ Edge(graph, "c", "a")
    /\ NodeSet(graph) = {"a", "b", "c"}
    /\ ~result.warned
    /\ result.order = <<"b", "a">>

(***************************************************************************)
(* main_queue, under SpecQueue.                                            *)
(***************************************************************************)
\* The main queues of the calls that differ from the present one at most
\* in max_nodes, weak_criteria and card_stats: here with max_nodes = 0 and
\* neither criteria nor statistics.
MainQueuesOf(v, due_card_ids, depth) ==
    {r.main_queue : r \in build_dependency_queue(v, due_card_ids, depth, 0, FALSE,
                                                  NoCriteria, NoStats)}

RECURSIVE walk_prereqs_log(_, _, _, _, _, _)
RECURSIVE WalkPrereqsLogLoop(_, _, _, _, _, _)
walk_prereqs_log(g, cid, current_depth, depth, max_nodes, st) ==
    IF current_depth > depth \/ Cardinality(st.acc) >= max_nodes THEN st
    ELSE WalkPrereqsLogLoop(g, get_prerequisites(g, cid), current_depth, depth, max_nodes,
                            [st EXCEPT !.log = Append(@, cid)])

WalkPrereqsLogLoop(g, todo, current_depth, depth, max_nodes, st) ==
    IF todo = <<>> THEN st
    ELSE WalkPrereqsLogLoop(g, Tail(todo), current_depth, depth, max_nodes,
             IF Head(todo) \notin st.acc /\ Head(todo) \in NodeSet(g)
             THEN walk_prereqs_log(g, Head(todo), current_depth + 1, depth, max_nodes,
                                   [st EXCEPT !.acc = @ \cup {Head(todo)}])
             ELSE st)

\* walk_dependents and its loop; st = [acc, log], acc the set dependents.
RECURSIVE walk_dependents_log(_, _, _, _, _, _)
RECURSIVE WalkDependentsLogLoop(_, _, _, _, _, _)
walk_dependents_log(g, cid, current_depth, depth, max_nodes, st) ==
    IF current_depth > depth \/ Cardinality(st.acc) >= max_nodes THEN st
    ELSE WalkDependentsLogLoop(g, get_dependents(g, cid), current_depth, depth, max_nodes,
                               [st EXCEPT !.log = Append(@, cid)])

WalkDependentsLogLoop(g, todo, current_depth, depth, max_nodes, st) ==
    IF todo = <<>> THEN st
    ELSE WalkDependentsLogLoop(g, Tail(todo), current_depth, depth, max_nodes,
             IF Head(todo) \notin st.acc /\ Head(todo) \in NodeSet(g)
             THEN walk_dependents_log(g, Head(todo), current_depth + 1, depth, max_nodes,
                                      [st EXCEPT !.acc = @ \cup {Head(todo)}])
             ELSE st)

\* dfs of detect_cycles_for_card without its cycle list; st = [visited, log].
RECURSIVE dfs_log(_, _, _)
RECURSIVE DfsLogLoop(_, _, _)
dfs_log(g, cid, st) ==
    DfsLogLoop(g, get_prerequisites(g, cid),
               [visited |-> st.visited \cup {cid}, log |-> Append(st.log, cid)])

DfsLogLoop(g, todo, st) ==
    IF todo = <<>> THEN st
    ELSE DfsLogLoop(g, Tail(todo),
                    IF Head(todo) \in NodeSet(g) /\ Head(todo) \notin st.visited
                    THEN dfs_log(g, Head(todo), st)
                    ELSE st)

\* Mutant: _collect_prereqs stops on the depth alone.
RECURSIVE collect_prereqs_log_unvisited(_, _, _, _)
RECURSIVE CollectLogLoop(_, _, _, _, _)
collect_prereqs_log_unvisited(g, card_id, depth, st) ==
    IF depth <= 0
    THEN [prereqs |-> {}, visited |-> st.visited, log |-> st.log]
    ELSE CollectLogLoop(g, get_prerequisites(g, card_id), depth,
                        [visited |-> st.visited \cup {card_id}, log |-> Append(st.log, card_id)],
                        {})

\* _collect_prereqs and its loop; st = [visited, log].
RECURSIVE collect_prereqs_log(_, _, _, _)
collect_prereqs_log(g, card_id, depth, st) ==
    IF depth <= 0 \/ card_id \in st.visited
    THEN [prereqs |-> {}, visited |-> st.visited, log |-> st.log]
    ELSE CollectLogLoop(g, get_prerequisites(g, card_id), depth,
                        [visited |-> st.visited \cup {card_id}, log |-> Append(st.log, card_id)],
                        {})

CollectLogLoop(g, todo, depth, st, prereqs) ==
    IF todo = <<>> THEN [prereqs |-> prereqs, visited |-> st.visited, log |-> st.log]
    ELSE LET r == collect_prereqs_log(g, Head(todo), depth - 1, st)
         IN  CollectLogLoop(g, Tail(todo), depth, [visited |-> r.visited, log |-> r.log],
                            prereqs \cup {Head(todo)} \cup r.prereqs)

(***************************************************************************)
(* Termination of the traversals, under SpecTraverse.                      *)
(***************************************************************************)
\* How often x occurs in the list s.
Occurrences(x, s) == Len(SelectSeq(s, LAMBDA y : y = x))

NoLog == [acc |-> {}, log |-> <<>>]

PrereqWalk == walk_prereqs_log(graph, call.card_id, 1, call.depth, call.max_nodes, NoLog)

DependentWalk == walk_dependents_log(graph, call.card_id, 1, call.depth, call.max_nodes, NoLog)

CycleSearch == dfs_log(graph, call.card_id, [visited |-> {}, log |-> <<>>])

Collection == collect_prereqs_log(graph, call.card_id, call.depth, [visited |-> {}, log |-> <<>>])

CollectCalled == call.op = "_collect_prereqs"

\* The logged traversals compute what the calls returned.
LogsAgree ==
    /\ (LocalCalled /\ result.found) =>
           result.prerequisites = PrereqWalk.acc /\ result.dependents = DependentWalk.acc
    /\ CollectCalled => result = Collection.prereqs

====
